---- MODULE Spec2Model ----
(***************************************************************************)
(* prepareContainerAsset (packages/aws-cdk/lib/docker.ts): build a Docker  *)
(* image asset, log in to ECR, push it and derive the CloudFormation       *)
(* parameters of the stack.                                                *)
(*                                                                         *)
(* A JavaScript string is a sequence of one-character strings; undefined   *)
(* is a value of its own.  Every await of the function is one action: the  *)
(* collaborator call, its outcome (a value or a rejection chosen by the    *)
(* environment) and the synchronous code up to the next await.             *)
(***************************************************************************)
EXTENDS Naturals, Sequences, FiniteSets

\* ------------------------------------------------------------ bounds

\* Number of entries of asset.buildArgs.
MaxBuildArgs == 2

\* Number of concurrent calls of prepareContainerAsset for one asset.
MaxPublishes == 2

\* ------------------------------------------------------------ strings

\* The value undefined of an optional string field (no string holds this element).
Undefined == <<"undefined">>

\* JavaScript truthiness of an optional string: neither undefined nor ''.
Truthy(s) == s # Undefined /\ s # <<>>

\* a ?? b
Coalesce(a, b) == IF a = Undefined THEN b ELSE a

\* s.startsWith(prefix)
StartsWith(s, prefix) ==
    /\ Len(prefix) <= Len(s)
    /\ SubSeq(s, 1, Len(prefix)) = prefix

\* s.indexOf(pat), 1-based; 0 when pat does not occur.
IndexOf(s, pat) ==
    LET hits == {i \in 1..(Len(s) + 1) :
                    /\ i + Len(pat) - 1 <= Len(s)
                    /\ SubSeq(s, i, i + Len(pat) - 1) = pat}
    IN IF hits = {} THEN 0 ELSE CHOOSE i \in hits : \A j \in hits : i <= j

\* s.replace(pat, by) with a string pattern: the first occurrence only.
Replace(s, pat, by) ==
    LET i == IndexOf(s, pat)
    IN IF i = 0 THEN s
       ELSE SubSeq(s, 1, i - 1) \o by \o SubSeq(s, i + Len(pat), Len(s))

WhiteSpace == {" ", "\n", "\t"}

RECURSIVE TrimStart(_)
TrimStart(s) ==
    IF s # <<>> /\ Head(s) \in WhiteSpace THEN TrimStart(Tail(s)) ELSE s

RECURSIVE TrimEnd(_)
TrimEnd(s) ==
    IF s # <<>> /\ s[Len(s)] \in WhiteSpace
    THEN TrimEnd(SubSeq(s, 1, Len(s) - 1)) ELSE s

\* s.trim()
Trim(s) == TrimEnd(TrimStart(s))

\* s.split(sep) for a one-character separator: '' splits into [''].
RECURSIVE Split(_, _)
Split(s, sep) ==
    LET cuts == {i \in 1..Len(s) : s[i] = sep}
    IN IF cuts = {} THEN <<s>>
       ELSE LET i == CHOOSE c \in cuts : \A d \in cuts : c <= d
            IN <<SubSeq(s, 1, i - 1)>> \o Split(SubSeq(s, i + 1, Len(s)), sep)

\* array.find(pred) for the predicate startsWith(prefix); Undefined when none.
RECURSIVE FindStartsWith(_, _)
FindStartsWith(arr, prefix) ==
    IF arr = <<>> THEN Undefined
    ELSE IF StartsWith(Head(arr), prefix) THEN Head(arr)
    ELSE FindStartsWith(Tail(arr), prefix)

\* [].concat(...arrays)
RECURSIVE Concat(_)
Concat(arrays) ==
    IF arrays = <<>> THEN <<>> ELSE Head(arrays) \o Concat(Tail(arrays))

\* ------------------------------------------------------------ path

\* path.isAbsolute(p) (posix)
IsAbsolute(p) == p # <<>> /\ Head(p) = "/"

\* The segments of a path after normalisation: '' and '.' dropped, '..' resolved.
RECURSIVE NormalizeSegments(_, _, _)
NormalizeSegments(segs, out, abs) ==
    IF segs = <<>> THEN out
    ELSE LET s == Head(segs)
         IN IF s = <<>> \/ s = <<".">>
            THEN NormalizeSegments(Tail(segs), out, abs)
            ELSE IF s = <<".", ".">>
            THEN IF out # <<>> /\ out[Len(out)] # <<".", ".">>
                 THEN NormalizeSegments(Tail(segs), SubSeq(out, 1, Len(out) - 1), abs)
                 ELSE IF abs THEN NormalizeSegments(Tail(segs), out, abs)
                 ELSE NormalizeSegments(Tail(segs), Append(out, s), abs)
            ELSE NormalizeSegments(Tail(segs), Append(out, s), abs)

\* segments.join('/')
RECURSIVE JoinSegments(_)
JoinSegments(segs) ==
    IF segs = <<>> THEN <<>>
    ELSE IF Len(segs) = 1 THEN Head(segs)
    ELSE Head(segs) \o <<"/">> \o JoinSegments(Tail(segs))

\* path.normalize(p) (posix)
Normalize(p) ==
    IF p = <<>> THEN <<".">>
    ELSE LET abs  == IsAbsolute(p)
             tr   == p[Len(p)] = "/"
             body == JoinSegments(NormalizeSegments(Split(p, "/"), <<>>, abs))
         IN IF body = <<>>
            THEN (IF abs THEN <<"/">> ELSE IF tr THEN <<".", "/">> ELSE <<".">>)
            ELSE (IF abs THEN <<"/">> ELSE <<>>) \o body \o (IF tr THEN <<"/">> ELSE <<>>)

\* path.join(a, b) (posix): the non-empty arguments joined by '/', normalised.
PathJoin(a, b) ==
    IF a = <<>> THEN Normalize(b)
    ELSE IF b = <<>> THEN Normalize(a)
    ELSE Normalize(a \o <<"/">> \o b)

\* Mutant: the path is joined to the assembly directory even when absolute.
ContextPath_AlwaysJoined(dir, a) == PathJoin(dir, a.path)

\* const contextPath = path.isAbsolute(asset.path) ? asset.path : path.join(assemblyDir, asset.path)
ContextPath(dir, a) ==
    IF IsAbsolute(a.path) THEN a.path ELSE PathJoin(dir, a.path)

\* ------------------------------------------------------------ literals

S_docker == <<"d", "o", "c", "k", "e", "r">>
S_build == <<"b", "u", "i", "l", "d">>
S_buildArg == <<"-", "-", "b", "u", "i", "l", "d", "-", "a", "r", "g">>
S_tag == <<"-", "-", "t", "a", "g">>
S_target == <<"-", "-", "t", "a", "r", "g", "e", "t">>
S_file == <<"-", "-", "f", "i", "l", "e">>
S_login == <<"l", "o", "g", "i", "n">>
S_username == <<"-", "-", "u", "s", "e", "r", "n", "a", "m", "e">>
S_password == <<"-", "-", "p", "a", "s", "s", "w", "o", "r", "d">>
S_push == <<"p", "u", "s", "h">>
S_image == <<"i", "m", "a", "g", "e">>
S_inspect == <<"i", "n", "s", "p", "e", "c", "t">>
S_format == <<"-", "-", "f", "o", "r", "m", "a", "t">>
S_formatArg == <<"{", "{", "r", "a", "n", "g", "e", " ", ".", "R", "e", "p", "o",
                 "D", "i", "g", "e", "s", "t", "s", "}", "}", "{", "{", ".", "}", "}",
                 "|", "{", "{", "e", "n", "d", "}", "}">>
S_latest == <<"l", "a", "t", "e", "s", "t">>
S_true == <<"t", "r", "u", "e">>
S_false == <<"f", "a", "l", "s", "e">>
S_sha256 == <<"@", "s", "h", "a", "2", "5", "6", ":">>

\* ------------------------------------------------------------ the asset

Digits == <<"0", "1", "2", "3", "4", "5", "6", "7", "8", "9">>

\* The number a digit character denotes; 10 for any other character.
DigitValue(c) ==
    IF \E i \in 1..10 : Digits[i] = c
    THEN (CHOOSE i \in 1..10 : Digits[i] = c) - 1 ELSE 10

\* A property key that is a canonical array index ('0', '7', '12'; not '01').
IsArrayIndex(k) ==
    /\ k # <<>>
    /\ \A i \in 1..Len(k) : DigitValue(k[i]) < 10
    /\ (Len(k) = 1 \/ k[1] # "0")

RECURSIVE IndexValue(_)
IndexValue(k) ==
    IF k = <<>> THEN 0
    ELSE 10 * IndexValue(SubSeq(k, 1, Len(k) - 1)) + DigitValue(k[Len(k)])

\* The entries of `entries` that satisfy / do not satisfy IsArrayIndex, in order.
RECURSIVE SelectEntries(_, _)
SelectEntries(entries, index) ==
    IF entries = <<>> THEN <<>>
    ELSE IF IsArrayIndex(Head(entries)[1]) = index
    THEN <<Head(entries)>> \o SelectEntries(Tail(entries), index)
    ELSE SelectEntries(Tail(entries), index)

\* Entries with array-index keys in ascending numeric order.
RECURSIVE SortByIndex(_)
SortByIndex(entries) ==
    IF entries = <<>> THEN <<>>
    ELSE LET i == CHOOSE i \in 1..Len(entries) :
                     \A j \in 1..Len(entries) :
                        IndexValue(entries[i][1]) <= IndexValue(entries[j][1])
         IN <<entries[i]>> \o
            SortByIndex(SubSeq(entries, 1, i - 1) \o SubSeq(entries, i + 1, Len(entries)))

\* Mutant: the entries in insertion order, whatever the keys.
ObjectEntries_InsertionOrder(obj) == obj

\* Object.entries(obj) of an object given by its properties in insertion order:
\* array-index keys first, ascending, then the other keys in insertion order.
ObjectEntries(obj) ==
    SortByIndex(SelectEntries(obj, TRUE)) \o SelectEntries(obj, FALSE)

OptionalNames(name) == {Undefined, <<>>, name}

BuildArgKeys == {<<"a">>, <<"c">>, <<"1">>}
BuildArgValue == <<"b">>

\* asset.buildArgs: objects of at most MaxBuildArgs properties (or undefined: no property).
BuildArgObjectsOver(keys) ==
    {obj \in UNION {[1..n -> {<<k, BuildArgValue>> : k \in keys}] : n \in 0..MaxBuildArgs} :
        \A i, j \in 1..Len(obj) : i # j => obj[i][1] # obj[j][1]}

BuildArgObjects == BuildArgObjectsOver(BuildArgKeys)

\* ContainerImageAssetMetadataEntry
Assets ==
    [id : {<<"i">>},
     sourceHash : {<<"0", "f">>, <<"1", "e">>},
     path : {<<"/", "f">>, <<"r">>},
     imageNameParameter : OptionalNames(<<"P">>),
     repositoryName : OptionalNames(<<"n">>),
     imageTag : OptionalNames(<<"t">>),
     buildArgs : BuildArgObjects,
     target : {Undefined, <<"s">>},
     file : {Undefined, <<"D">>}]

AssemblyDirs == {<<"/", "d">>, <<".">>}

\* ------------------------------------------------------------ command lines

\* Mutant: the tag falls back to the source hash of the asset.
ImageTag_SourceHash(a) == Coalesce(a.imageTag, a.sourceHash)

\* `${ecr.repositoryUri}:${imageTag}` with imageTag = asset.imageTag ?? 'latest'
ImageTag(a) == Coalesce(a.imageTag, S_latest)

ImageUri(e, a) == e.repositoryUri \o <<":">> \o ImageTag(a)

\* [].concat(...Object.entries(asset.buildArgs || {}).map(([k, v]) => ['--build-arg', `${k}=${v}`]))
RECURSIVE BuildArgPairs(_)
BuildArgPairs(entries) ==
    IF entries = <<>> THEN <<>>
    ELSE <<<<S_buildArg, Head(entries)[1] \o <<"=">> \o Head(entries)[2]>>>>
         \o BuildArgPairs(Tail(entries))

BuildArgs(a) == Concat(BuildArgPairs(ObjectEntries(a.buildArgs)))

\* Mutant: '--file' is pushed before '--target'.
BaseCommand_FileFirst(e, a, ctx) ==
    <<S_docker, S_build>> \o BuildArgs(a) \o <<S_tag, ImageUri(e, a), ctx>>
    \o (IF Truthy(a.file) THEN <<S_file, a.file>> ELSE <<>>)
    \o (IF Truthy(a.target) THEN <<S_target, a.target>> ELSE <<>>)

\* baseCommand, after the two optional pushes
BaseCommand(e, a, ctx) ==
    <<S_docker, S_build>> \o BuildArgs(a) \o <<S_tag, ImageUri(e, a), ctx>>
    \o (IF Truthy(a.target) THEN <<S_target, a.target>> ELSE <<>>)
    \o (IF Truthy(a.file) THEN <<S_file, a.file>> ELSE <<>>)

LoginCommand(c) ==
    <<S_docker, S_login, S_username, c.username, S_password, c.password, c.endpoint>>

PushCommand(e, a) == <<S_docker, S_push, ImageUri(e, a)>>

InspectCommand(e, a) ==
    <<S_docker, S_image, S_inspect, ImageUri(e, a), S_format, S_formatArg>>

\* ------------------------------------------------------------ collaborators

\* The repository URI the registry gives the repository of a name.
RepositoryUri(name) == <<"h", "/">> \o name

\* toolkitInfo.prepareEcrRepository(asset): the asset's repository name, or
\* one derived from asset.id, and its URI.
EcrRepository(a) ==
    LET name == IF Truthy(a.repositoryName) THEN a.repositoryName
                ELSE <<"c", "-">> \o a.id
    IN [repositoryUri |-> RepositoryUri(name), repositoryName |-> name]

\* toolkitInfo.checkEcrImage(repositoryName, imageTag) against the images pushed so far.
EcrImageExists(registry, repositoryName, imageTag) ==
    (RepositoryUri(repositoryName) \o <<":">> \o imageTag) \in registry

\* toolkitInfo.getEcrCredentials()
EcrCredentials == [username |-> <<"U">>, password |-> <<"W">>, endpoint |-> <<"h">>]

\* The images of the registry before any publish.
InitialImages == SUBSET {RepositoryUri(<<"n">>) \o <<":", "t">>}

\* What `docker image inspect --format ...` may print for an image pushed to e:
\* repo digests, each followed by '|'.
InspectOutputs(e) ==
    LET own(d)   == e.repositoryUri \o S_sha256 \o <<d>>
        longer   == e.repositoryUri \o <<"x">> \o S_sha256 \o <<"a">>
        other    == <<"o">> \o S_sha256 \o <<"a">>
    IN {<<>>,
        other \o <<"|">>,
        other \o <<"|">> \o own("b") \o <<"|", "\n">>,
        longer \o <<"|">> \o own("b") \o <<"|">>,
        own("b") \o <<"|">> \o own("c") \o <<"|">>}

\* ------------------------------------------------------------ errors and results

\* The code property of a rejection: 'ENOENT', another code, or none.
ErrorCodes == {"ENOENT", "AccessDenied", "undefined"}

\* The error a collaborator call rejects with.
Rejection(op, code) == [origin |-> op, code |-> code]

\* throw new Error(`"repositoryName" and "imageTag" are both required ...`)
ConfigurationError == [origin |-> "validation", code |-> "undefined"]

\* throw new Error(`Unable to identify repository digest ...`)
DigestError == [origin |-> "digest", code |-> "undefined"]

\* throw new Error('Error building Docker image asset; you need to have Docker installed ...')
DockerMissingError == [origin |-> "install-docker", code |-> "undefined"]

\* Mutant: the catch clause rethrows every error as it is.
Catch_Rethrow(e) == e

\* catch (e) { if (e.code === 'ENOENT') { throw new Error(...) } throw e; }
Catch(e) == IF e.code = "ENOENT" THEN DockerMissingError ELSE e

NoError == [origin |-> "none", code |-> "undefined"]

\* CloudFormation.Parameter; a property that is not set is Undefined / FALSE.
Parameter(key, value, usePrevious) ==
    [ParameterKey |-> key, ParameterValue |-> value, UsePreviousValue |-> usePrevious]

\* return [{ ParameterKey: asset.imageNameParameter, UsePreviousValue: true }]
ReuseResult(a) == <<Parameter(a.imageNameParameter, Undefined, TRUE)>>

\* Mutant: the required prefix lacks '@sha256:'.
RepoDigest_UriPrefix(e, stdout) ==
    FindStartsWith(Split(Trim(stdout), "|"), e.repositoryUri)

\* The repo digest of the inspect output that belongs to e, or Undefined.
RepoDigest(e, stdout) ==
    FindStartsWith(Split(Trim(stdout), "|"), e.repositoryUri \o S_sha256)

\* return [{ ParameterKey: asset.imageNameParameter,
\*           ParameterValue: repoDigest.replace(ecr.repositoryUri, ecr.repositoryName) }]
DigestResult(e, a, repoDigest) ==
    <<Parameter(a.imageNameParameter,
                Replace(repoDigest, e.repositoryUri, e.repositoryName), FALSE)>>

\* Mutant: the validation asks for repositoryName alone.
ValidAddressing_RepositoryOnly(a) ==
    Truthy(a.imageNameParameter) \/ Truthy(a.repositoryName)

\* if (!asset.imageNameParameter) { if (!asset.repositoryName || !asset.imageTag) throw ... }
ValidAddressing(a) ==
    Truthy(a.imageNameParameter) \/ (Truthy(a.repositoryName) /\ Truthy(a.imageTag))

\* if (asset.repositoryName && asset.imageTag)
Immutable(a) == Truthy(a.repositoryName) /\ Truthy(a.imageTag)

\* ------------------------------------------------------------ state

VARIABLES
    procs,        \* the calls of prepareContainerAsset
    assemblyDir,  \* per call: the argument assemblyDir
    asset,        \* per call: the argument asset
    reuse,        \* per call: the argument reuse
    pc,           \* per call: the await the call is at, or how it ended
    contextPath,  \* per call: the local contextPath
    ecr,          \* per call: the local ecr
    calls,        \* per call: the collaborator calls made, in order
    outcome,      \* per call: the parameters returned or the error thrown
    images        \* the image references the registry holds

vars == <<procs, assemblyDir, asset, reuse, pc, contextPath, ecr, calls, outcome, images>>

NoEcr == [repositoryUri |-> Undefined, repositoryName |-> Undefined]

Pending == [kind |-> "pending", parameters |-> <<>>, error |-> NoError]
Returned(parameters) == [kind |-> "returned", parameters |-> parameters, error |-> NoError]
Thrown(e) == [kind |-> "thrown", parameters |-> <<>>, error |-> e]

\* A collaborator call and what it settled with: the value (the standard output
\* of a command, 'true' or 'false' of checkEcrImage) or the rejection.
Fulfilled(value) == [status |-> "fulfilled", value |-> value, error |-> NoError]
Rejected(e) == [status |-> "rejected", value |-> <<>>, error |-> e]
CallRecord(op, args, reply) == [op |-> op, args |-> args, reply |-> reply]

\* The calls P, each with arguments of `dirs`, `assets` and `flags`.
InitCallsWith(P, dirs, assets, flags) ==
    /\ procs = P
    /\ assemblyDir \in [P -> dirs]
    /\ asset \in [P -> assets]
    /\ reuse \in [P -> flags]
    /\ pc = [p \in P |-> "start"]
    /\ contextPath = [p \in P |-> Undefined]
    /\ ecr = [p \in P |-> NoEcr]
    /\ calls = [p \in P |-> <<>>]
    /\ outcome = [p \in P |-> Pending]
    /\ images \in InitialImages

\* One call of prepareContainerAsset.
Init == InitCallsWith({1}, AssemblyDirs, Assets, BOOLEAN)

\* ------------------------------------------------------------ steps

\* A collaborator call is recorded with what it settled with.
Called(p, op, args, reply) ==
    calls' = [calls EXCEPT ![p] = Append(@, CallRecord(op, args, reply))]

\* The call returns `parameters`.
Return(p, parameters) ==
    /\ pc' = [pc EXCEPT ![p] = "returned"]
    /\ outcome' = [outcome EXCEPT ![p] = Returned(parameters)]

\* An error thrown outside the try block reaches the caller as it is.
Throw(p, e) ==
    /\ pc' = [pc EXCEPT ![p] = "thrown"]
    /\ outcome' = [outcome EXCEPT ![p] = Thrown(e)]

\* An error thrown or a rejection awaited inside the try block goes through the catch clause.
ThrowInTry(p, e) == Throw(p, Catch(e))

Goto(p, label) ==
    /\ pc' = [pc EXCEPT ![p] = label]
    /\ UNCHANGED outcome

\* await of a call that rejects: the rejection is thrown inside the try block.
AwaitRejected(p, op, args, origin) ==
    \E code \in ErrorCodes :
        /\ Called(p, op, args, Rejected(Rejection(origin, code)))
        /\ ThrowInTry(p, Rejection(origin, code))

\* Lines 16-20: the addressing of the asset.
Validate(p) ==
    /\ pc[p] = "start"
    /\ IF ValidAddressing(asset[p])
       THEN Goto(p, "validated")
       ELSE Throw(p, ConfigurationError)
    /\ UNCHANGED <<procs, assemblyDir, asset, reuse, contextPath, ecr, calls, images>>

\* Mutant: the reuse flag is not looked at.
Reuse_Ignored(p) ==
    /\ pc[p] = "validated"
    /\ contextPath' = [contextPath EXCEPT ![p] = ContextPath(assemblyDir[p], asset[p])]
    /\ Goto(p, "prepareEcrRepository")
    /\ UNCHANGED <<procs, assemblyDir, asset, reuse, ecr, calls, images>>

\* Lines 22-31: the reuse shortcut, else the context path.
Reuse(p) ==
    /\ pc[p] = "validated"
    /\ IF reuse[p]
       THEN /\ Return(p, ReuseResult(asset[p]))
            /\ UNCHANGED contextPath
       ELSE /\ contextPath' = [contextPath EXCEPT ![p] = ContextPath(assemblyDir[p], asset[p])]
            /\ Goto(p, "prepareEcrRepository")
    /\ UNCHANGED <<procs, assemblyDir, asset, reuse, ecr, calls, images>>

\* Line 34: await toolkitInfo.prepareEcrRepository(asset), then the test of line 38.
PrepareEcrRepository(p) ==
    /\ pc[p] = "prepareEcrRepository"
    /\ \/ /\ Called(p, "prepareEcrRepository", <<>>, Fulfilled(<<>>))
          /\ ecr' = [ecr EXCEPT ![p] = EcrRepository(asset[p])]
          /\ Goto(p, IF Immutable(asset[p]) THEN "checkEcrImage" ELSE "build")
       \/ /\ AwaitRejected(p, "prepareEcrRepository", <<>>, "prepareEcrRepository")
          /\ UNCHANGED ecr
    /\ UNCHANGED <<procs, assemblyDir, asset, reuse, contextPath, images>>

\* Mutant: an image that exists is built and pushed all the same.
CheckEcrImage_NoSkip(p) ==
    LET args == <<asset[p].repositoryName, asset[p].imageTag>>
    IN /\ pc[p] = "checkEcrImage"
       /\ \/ /\ Called(p, "checkEcrImage", args,
                      IF EcrImageExists(images, asset[p].repositoryName, asset[p].imageTag)
                      THEN Fulfilled(S_true) ELSE Fulfilled(S_false))
             /\ Goto(p, "build")
          \/ AwaitRejected(p, "checkEcrImage", args, "checkEcrImage")
       /\ UNCHANGED <<procs, assemblyDir, asset, reuse, contextPath, ecr, images>>

\* Lines 40-43: await toolkitInfo.checkEcrImage(asset.repositoryName, asset.imageTag).
CheckEcrImage(p) ==
    LET args == <<asset[p].repositoryName, asset[p].imageTag>>
    IN /\ pc[p] = "checkEcrImage"
       /\ \/ IF EcrImageExists(images, asset[p].repositoryName, asset[p].imageTag)
             THEN /\ Called(p, "checkEcrImage", args, Fulfilled(S_true))
                  /\ Return(p, <<>>)
             ELSE /\ Called(p, "checkEcrImage", args, Fulfilled(S_false))
                  /\ Goto(p, "build")
          \/ AwaitRejected(p, "checkEcrImage", args, "checkEcrImage")
       /\ UNCHANGED <<procs, assemblyDir, asset, reuse, contextPath, ecr, images>>

\* Mutant: the push follows the build at once, dockerLogin is left out.
Build_SkipsLogin(p) ==
    LET baseCommand == BaseCommand(ecr[p], asset[p], contextPath[p])
    IN /\ pc[p] = "build"
       /\ \/ /\ Called(p, "shell", baseCommand, Fulfilled(<<>>))
             /\ Goto(p, "push")
          \/ AwaitRejected(p, "shell", baseCommand, "build")
       /\ UNCHANGED <<procs, assemblyDir, asset, reuse, contextPath, ecr, images>>

\* Mutant: a build that fails is tried again.
Build_Retried(p) ==
    LET baseCommand == BaseCommand(ecr[p], asset[p], contextPath[p])
    IN /\ pc[p] = "build"
       /\ Len(calls[p]) < 4
       /\ \/ /\ Called(p, "shell", baseCommand, Fulfilled(<<>>))
             /\ Goto(p, "getEcrCredentials")
          \/ \E code \in ErrorCodes :
                /\ Called(p, "shell", baseCommand, Rejected(Rejection("build", code)))
                /\ Goto(p, "build")
       /\ UNCHANGED <<procs, assemblyDir, asset, reuse, contextPath, ecr, images>>

\* Lines 46-67: await shell(baseCommand).
Build(p) ==
    LET baseCommand == BaseCommand(ecr[p], asset[p], contextPath[p])
    IN /\ pc[p] = "build"
       /\ \/ /\ Called(p, "shell", baseCommand, Fulfilled(<<>>))
             /\ Goto(p, "getEcrCredentials")
          \/ AwaitRejected(p, "shell", baseCommand, "build")
       /\ UNCHANGED <<procs, assemblyDir, asset, reuse, contextPath, ecr, images>>

\* Line 107 (dockerLogin): await toolkitInfo.getEcrCredentials().
GetEcrCredentials(p) ==
    /\ pc[p] = "getEcrCredentials"
    /\ \/ /\ Called(p, "getEcrCredentials", <<>>, Fulfilled(<<>>))
          /\ Goto(p, "login")
       \/ AwaitRejected(p, "getEcrCredentials", <<>>, "getEcrCredentials")
    /\ UNCHANGED <<procs, assemblyDir, asset, reuse, contextPath, ecr, images>>

\* Mutant: the login is not awaited, so its rejection does not stop the push.
Login_NotAwaited(p) ==
    /\ pc[p] = "login"
    /\ \/ Called(p, "shell", LoginCommand(EcrCredentials), Fulfilled(<<>>))
       \/ \E code \in ErrorCodes :
             Called(p, "shell", LoginCommand(EcrCredentials), Rejected(Rejection("login", code)))
    /\ Goto(p, "push")
    /\ UNCHANGED <<procs, assemblyDir, asset, reuse, contextPath, ecr, images>>

\* Lines 108-111 (dockerLogin): await shell(['docker', 'login', ...]).
Login(p) ==
    /\ pc[p] = "login"
    /\ \/ /\ Called(p, "shell", LoginCommand(EcrCredentials), Fulfilled(<<>>))
          /\ Goto(p, "push")
       \/ AwaitRejected(p, "shell", LoginCommand(EcrCredentials), "login")
    /\ UNCHANGED <<procs, assemblyDir, asset, reuse, contextPath, ecr, images>>

\* Mutant: the digest is inspected whatever the addressing.
Push_AlwaysInspects(p) ==
    /\ pc[p] = "push"
    /\ \/ /\ Called(p, "shell", PushCommand(ecr[p], asset[p]), Fulfilled(<<>>))
          /\ images' = images \cup {ImageUri(ecr[p], asset[p])}
          /\ Goto(p, "inspect")
       \/ /\ AwaitRejected(p, "shell", PushCommand(ecr[p], asset[p]), "push")
          /\ UNCHANGED images
    /\ UNCHANGED <<procs, assemblyDir, asset, reuse, contextPath, ecr>>

\* Lines 73-78 and 93: await shell(['docker', 'push', imageUri]); the registry
\* holds the image once the push succeeds.
Push(p) ==
    /\ pc[p] = "push"
    /\ \/ /\ Called(p, "shell", PushCommand(ecr[p], asset[p]), Fulfilled(<<>>))
          /\ images' = images \cup {ImageUri(ecr[p], asset[p])}
          /\ IF Truthy(asset[p].imageNameParameter)
             THEN Goto(p, "inspect")
             ELSE Return(p, <<>>)
       \/ /\ AwaitRejected(p, "shell", PushCommand(ecr[p], asset[p]), "push")
          /\ UNCHANGED images
    /\ UNCHANGED <<procs, assemblyDir, asset, reuse, contextPath, ecr>>

\* Lines 80-89: await shell(['docker', 'image', 'inspect', ...]) and the digest of the repository.
Inspect(p) ==
    /\ pc[p] = "inspect"
    /\ \/ \E stdout \in InspectOutputs(ecr[p]) :
             LET repoDigest == RepoDigest(ecr[p], stdout)
             IN /\ Called(p, "shell", InspectCommand(ecr[p], asset[p]), Fulfilled(stdout))
                /\ IF Truthy(repoDigest)
                   THEN Return(p, DigestResult(ecr[p], asset[p], repoDigest))
                   ELSE ThrowInTry(p, DigestError)
       \/ AwaitRejected(p, "shell", InspectCommand(ecr[p], asset[p]), "inspect")
    /\ UNCHANGED <<procs, assemblyDir, asset, reuse, contextPath, ecr, images>>

Next ==
    \/ \E p \in procs : Validate(p)
    \/ \E p \in procs : Reuse(p)
    \/ \E p \in procs : PrepareEcrRepository(p)
    \/ \E p \in procs : CheckEcrImage(p)
    \/ \E p \in procs : Build(p)
    \/ \E p \in procs : GetEcrCredentials(p)
    \/ \E p \in procs : Login(p)
    \/ \E p \in procs : Push(p)
    \/ \E p \in procs : Inspect(p)

Spec == Init /\ [][Next]_vars

\* Assets of every addressing, with nothing optional in the build command.
PlainAssets ==
    [id : {<<"i">>},
     sourceHash : {<<"0", "f">>},
     path : {<<"r">>},
     imageNameParameter : OptionalNames(<<"P">>),
     repositoryName : OptionalNames(<<"n">>),
     imageTag : OptionalNames(<<"t">>),
     buildArgs : {<<>>},
     target : {Undefined},
     file : {Undefined}]

\* One call of prepareContainerAsset for such an asset.
InitPlain == InitCallsWith({1}, {<<"/", "d">>}, PlainAssets, BOOLEAN)

\* Assets with repositoryName and imageTag, with and without imageNameParameter.
ImmutableAssets ==
    [id : {<<"i">>},
     sourceHash : {<<"0", "f">>},
     path : {<<"r">>},
     imageNameParameter : {Undefined, <<"P">>},
     repositoryName : {<<"n">>},
     imageTag : {<<"t">>},
     buildArgs : {<<>>},
     target : {Undefined},
     file : {Undefined}]

\* Concurrent calls of prepareContainerAsset for the same asset and one
\* registry; their awaits interleave in any order.
InitConcurrent ==
    /\ InitCallsWith(1..MaxPublishes, {<<"/", "d">>}, ImmutableAssets, {FALSE})
    /\ \A p, q \in procs : asset[p] = asset[q]

SpecConcurrent == InitConcurrent /\ [][Next]_vars

\* Every await settles: a call that can take a step eventually takes one.
FairSpec == InitPlain /\ [][Next]_vars /\ WF_vars(Next)

\* Legacy assets whose buildArgs have up to two integer-like keys.
BuildArgAssets ==
    [id : {<<"i">>},
     sourceHash : {<<"0", "f">>},
     path : {<<"/", "f">>, <<"r">>},
     imageNameParameter : {<<"P">>},
     repositoryName : {Undefined, <<"n">>},
     imageTag : {Undefined, <<"t">>},
     buildArgs : BuildArgObjectsOver(BuildArgKeys \cup {<<"2">>}),
     target : {Undefined, <<"s">>},
     file : {Undefined, <<"D">>}]

\* One call of prepareContainerAsset for such an asset.
InitBuildArgs == InitCallsWith({1}, AssemblyDirs, BuildArgAssets, BOOLEAN)

SpecBuildArgs == InitBuildArgs /\ [][Next]_vars

\* ------------------------------------------------------------ properties

\* An optional field is present when it is a non-empty string and absent when
\* it is undefined; the empty string is neither.
Present(x) == x # Undefined /\ x # <<>>
Absent(x) == x = Undefined

\* The asset of call p is addressed by a parameter or by repository and tag.
ValidAddressingClaim(p) ==
    \/ Present(asset[p].imageNameParameter)
    \/ (Present(asset[p].repositoryName) /\ Present(asset[p].imageTag))

\* The calls of p that run `docker <verb> ...`.
ShellCalls(p, verb) ==
    {i \in 1..Len(calls[p]) :
        /\ calls[p][i].op = "shell"
        /\ Len(calls[p][i].args) >= 2
        /\ calls[p][i].args[1] = S_docker
        /\ calls[p][i].args[2] = verb}

\* The calls of p to the operation `op` of toolkitInfo.
ToolkitCalls(p, op) == {i \in 1..Len(calls[p]) : calls[p][i].op = op}

\* checkEcrImage told call p that the image exists.
ReportedExisting(p) ==
    \E i \in ToolkitCalls(p, "checkEcrImage") :
        calls[p][i].reply = Fulfilled(S_true)

\* C1: with repositoryName and imageTag explicit and reuse false, once the
\* registry reports that the image exists the call has made no build,
\* credentials, login, push or inspect call and has returned no parameter.
C1_SkipsExistingImage ==
    \A p \in procs :
        (/\ Present(asset[p].repositoryName)
         /\ Present(asset[p].imageTag)
         /\ ~reuse[p]
         /\ ReportedExisting(p))
        => /\ ShellCalls(p, S_build) = {}
           /\ ShellCalls(p, S_login) = {}
           /\ ShellCalls(p, S_push) = {}
           /\ ShellCalls(p, S_image) = {}
           /\ ToolkitCalls(p, "getEcrCredentials") = {}
           /\ outcome[p] = Returned(<<>>)

C1_Witness ==
    \E p \in procs :
        /\ Present(asset[p].repositoryName)
        /\ Present(asset[p].imageTag)
        /\ ~reuse[p]
        /\ ReportedExisting(p)
        /\ pc[p] = "returned"

\* C2: a call with reuse true of a validly addressed asset makes no
\* collaborator call at all, and once past the reuse test it has returned,
\* when imageNameParameter is set, exactly one parameter with that key and
\* UsePreviousValue true.
C2_ReuseCallsNothing ==
    \A p \in procs :
        (reuse[p] /\ ValidAddressingClaim(p))
        => /\ calls[p] = <<>>
           /\ pc[p] \in {"start", "validated", "returned"}
           /\ (pc[p] = "returned" /\ Present(asset[p].imageNameParameter))
              => /\ outcome[p].kind = "returned"
                 /\ Len(outcome[p].parameters) = 1
                 /\ outcome[p].parameters[1].ParameterKey = asset[p].imageNameParameter
                 /\ outcome[p].parameters[1].UsePreviousValue = TRUE

C2_Witness ==
    \E p \in procs :
        /\ reuse[p]
        /\ Present(asset[p].imageNameParameter)
        /\ pc[p] = "returned"

\* C3: when imageNameParameter is absent and repositoryName or imageTag is
\* absent, the call (reuse or not) ends with the configuration error without
\* any collaborator call; when imageNameParameter is present, or both
\* repositoryName and imageTag are, it never ends with that error.
C3_ValidationFailsFirst ==
    \A p \in procs :
        /\ (/\ Absent(asset[p].imageNameParameter)
            /\ (Absent(asset[p].repositoryName) \/ Absent(asset[p].imageTag)))
           => /\ calls[p] = <<>>
              /\ pc[p] \in {"start", "thrown"}
              /\ pc[p] = "thrown" => outcome[p] = Thrown(ConfigurationError)
        /\ (\/ Present(asset[p].imageNameParameter)
            \/ (Present(asset[p].repositoryName) /\ Present(asset[p].imageTag)))
           => /\ outcome[p].error # ConfigurationError
              /\ pc[p] # "start" => (pc[p] # "thrown" \/ calls[p] # <<>>)

C3_Witness ==
    \E p \in procs :
        /\ Absent(asset[p].imageNameParameter)
        /\ Present(asset[p].repositoryName)
        /\ Absent(asset[p].imageTag)
        /\ reuse[p]
        /\ outcome[p] = Thrown(ConfigurationError)

\* The elements of the '|'-delimited list `stdout` that start with
\* '<repositoryUri>@sha256:'.
OwnDigests(e, stdout) ==
    LET digests == Split(Trim(stdout), "|")
        prefix  == e.repositoryUri \o S_sha256
    IN {digests[i] : i \in {j \in 1..Len(digests) :
            /\ Len(digests[j]) >= Len(prefix)
            /\ \A k \in 1..Len(prefix) : digests[j][k] = prefix[k]}}

\* C4: in legacy mode, once the push has succeeded and the inspect command has
\* printed its list, the call has returned one parameter whose key is
\* imageNameParameter and whose value is a digest of the list that starts with
\* '<repositoryUri>@sha256:', its repositoryUri replaced by repositoryName; or,
\* when no digest of the list starts so, it has thrown the digest error.
C4_LegacyDigest ==
    \A p \in procs :
        \A i \in ShellCalls(p, S_image) :
            (/\ Present(asset[p].imageNameParameter)
             /\ ShellCalls(p, S_push) # {}
             /\ calls[p][i].reply.status = "fulfilled")
            => LET own == OwnDigests(ecr[p], calls[p][i].reply.value)
               IN IF own = {}
                  THEN outcome[p] = Thrown(DigestError)
                  ELSE /\ outcome[p].kind = "returned"
                       /\ Len(outcome[p].parameters) = 1
                       /\ outcome[p].parameters[1].ParameterKey = asset[p].imageNameParameter
                       /\ \E d \in own :
                            outcome[p].parameters[1].ParameterValue =
                                ecr[p].repositoryName
                                \o SubSeq(d, Len(ecr[p].repositoryUri) + 1, Len(d))

\* A list with a digest of another repository before the digest of this one.
C4_Witness ==
    \E p \in procs :
        \E i \in ShellCalls(p, S_image) :
            /\ Present(asset[p].imageNameParameter)
            /\ calls[p][i].reply.status = "fulfilled"
            /\ Len(Split(Trim(calls[p][i].reply.value), "|")) > 2
            /\ Cardinality(OwnDigests(ecr[p], calls[p][i].reply.value)) = 1
            /\ pc[p] = "returned"

\* The digest error is reached as well.
C4_WitnessNoDigest ==
    \E p \in procs :
        \E i \in ShellCalls(p, S_image) :
            /\ calls[p][i].reply.status = "fulfilled"
            /\ calls[p][i].reply.value # <<>>
            /\ OwnDigests(ecr[p], calls[p][i].reply.value) = {}
            /\ outcome[p] = Thrown(DigestError)

\* C5 (as claimed): a call for an asset with imageNameParameter that returns,
\* returns exactly one parameter whose key is imageNameParameter, and only
\* calls for assets without imageNameParameter return no parameter.
C5_OneParameterWhenLegacy ==
    \A p \in procs :
        (pc[p] = "returned" /\ Present(asset[p].imageNameParameter))
        => /\ outcome[p].parameters # <<>>
           /\ Len(outcome[p].parameters) = 1
           /\ outcome[p].parameters[1].ParameterKey = asset[p].imageNameParameter

\* C6 (as claimed): a call with reuse true for an asset without
\* imageNameParameter, addressed by repositoryName and imageTag, returns no
\* parameter.
C6_ReuseDirectReturnsEmpty ==
    \A p \in procs :
        (/\ Absent(asset[p].imageNameParameter)
         /\ Present(asset[p].repositoryName)
         /\ Present(asset[p].imageTag)
         /\ reuse[p]
         /\ pc[p] = "returned")
        => outcome[p].parameters = <<>>

\* The argument that follows '--tag' in a build command.
TagArgument(args) ==
    LET at == {i \in 1..(Len(args) - 1) : args[i] = S_tag}
    IN IF at = {} THEN Undefined ELSE args[(CHOOSE i \in at : \A j \in at : i <= j) + 1]

C8_DefaultTagIsSourceHash ==
    \A p \in procs :
        Absent(asset[p].imageTag)
        => \A i \in ShellCalls(p, S_build) :
              TagArgument(calls[p][i].args)
                  = ecr[p].repositoryUri \o <<":">> \o asset[p].sourceHash

\* The calls of p that were rejected.
RejectedCalls(p) ==
    {i \in 1..Len(calls[p]) : calls[p][i].reply.status = "rejected"}

\* C9 (as claimed): a rejection of prepareEcrRepository, checkEcrImage or
\* getEcrCredentials, whatever its code, and a rejection of a docker command
\* whose code is not ENOENT, is thrown to the caller as the same error; the
\* install-Docker error is thrown only for a docker command rejected with ENOENT.
C9_RejectionsPropagateUnwrapped ==
    \A p \in procs :
        /\ \A i \in RejectedCalls(p) :
              (calls[p][i].op # "shell" \/ calls[p][i].reply.error.code # "ENOENT")
              => outcome[p] = Thrown(calls[p][i].reply.error)
        /\ outcome[p].error = DockerMissingError
           => \E i \in RejectedCalls(p) :
                 /\ calls[p][i].op = "shell"
                 /\ calls[p][i].reply.error.code = "ENOENT"

\* C10: once the build command is rejected with ENOENT the call has thrown the
\* install-Docker error, and it has made no credentials, login, push or inspect call.
C10_MissingDockerStopsPublish ==
    \A p \in procs :
        (\E i \in ShellCalls(p, S_build) :
            /\ calls[p][i].reply.status = "rejected"
            /\ calls[p][i].reply.error.code = "ENOENT")
        => /\ outcome[p] = Thrown(DockerMissingError)
           /\ pc[p] = "thrown"
           /\ ToolkitCalls(p, "getEcrCredentials") = {}
           /\ ShellCalls(p, S_login) = {}
           /\ ShellCalls(p, S_push) = {}
           /\ ShellCalls(p, S_image) = {}

C10_Witness ==
    \E p \in procs :
        \E i \in ShellCalls(p, S_build) :
            /\ calls[p][i].reply.status = "rejected"
            /\ calls[p][i].reply.error.code = "ENOENT"
            /\ pc[p] = "thrown"

\* The image reference the commands of call p are expected to name.
ExpectedReference(p) ==
    ecr[p].repositoryUri \o <<":">>
    \o (IF Absent(asset[p].imageTag) THEN S_latest ELSE asset[p].imageTag)

\* 'K=V' of the i-th property (in insertion order) of the buildArgs of call p.
KeyValue(p, i) ==
    asset[p].buildArgs[i][1] \o <<"=">> \o asset[p].buildArgs[i][2]

\* The build command `args` holds, after 'docker build', one '--build-arg K=V'
\* pair per property of the buildArgs of call p, the i-th property at place
\* place[i], and then '--tag', the image reference and the context path.
BuildCommandWithArgsAt(p, args, place) ==
    LET n == Len(asset[p].buildArgs)
    IN /\ Len(args) >= 2 * n + 5
       /\ args[1] = S_docker
       /\ args[2] = S_build
       /\ \A i \in 1..n :
             /\ place[i] \in 1..n
             /\ args[2 * place[i] + 1] = S_buildArg
             /\ args[2 * place[i] + 2] = KeyValue(p, i)
       /\ \A i, j \in 1..n : i # j => place[i] # place[j]
       /\ \A k \in 1..Len(args) : args[k] = S_buildArg => k \in 3..(2 * n + 2)
       /\ args[2 * n + 3] = S_tag
       /\ args[2 * n + 4] = ExpectedReference(p)
       /\ args[2 * n + 5] = contextPath[p]

\* The place Object.entries gives the i-th property of the buildArgs of call p:
\* after the integer-like keys that are smaller (or, for another key, after all
\* of them) and after the earlier properties whose key is not integer-like.
EntryPlace(p, i) ==
    LET obj == asset[p].buildArgs
        first(j) ==
            IF IsArrayIndex(obj[j][1])
            THEN ~IsArrayIndex(obj[i][1]) \/ IndexValue(obj[j][1]) < IndexValue(obj[i][1])
            ELSE ~IsArrayIndex(obj[i][1]) /\ j < i
    IN 1 + Cardinality({j \in 1..Len(obj) : j # i /\ first(j)})

\* C11 (as claimed): every build command is 'docker build', one
\* '--build-arg K=V' pair per entry of buildArgs in insertion order, '--tag',
\* the image reference and the context path.
C11_BuildArgsInInsertionOrder ==
    \A p \in procs :
        \A c \in ShellCalls(p, S_build) :
            BuildCommandWithArgsAt(p, calls[p][c].args,
                                   [i \in 1..Len(asset[p].buildArgs) |-> i])

\* C11 (amended): the pairs come in the order of Object.entries: the
\* integer-like keys first, ascending, then the other keys in insertion order
\* (insertion order when no key is integer-like); without buildArgs the
\* command holds no '--build-arg'.
C11_BuildArgsInEntriesOrder ==
    \A p \in procs :
        \A c \in ShellCalls(p, S_build) :
            /\ BuildCommandWithArgsAt(p, calls[p][c].args,
                                      [i \in 1..Len(asset[p].buildArgs) |-> EntryPlace(p, i)])
            /\ (\A i \in 1..Len(asset[p].buildArgs) : ~IsArrayIndex(asset[p].buildArgs[i][1]))
               => BuildCommandWithArgsAt(p, calls[p][c].args,
                                         [i \in 1..Len(asset[p].buildArgs) |-> i])

\* A build with two integer-like keys, the greater one inserted first.
C11_Witness ==
    \E p \in procs :
        /\ ShellCalls(p, S_build) # {}
        /\ Len(asset[p].buildArgs) = 2
        /\ IsArrayIndex(asset[p].buildArgs[1][1])
        /\ IsArrayIndex(asset[p].buildArgs[2][1])
        /\ IndexValue(asset[p].buildArgs[2][1]) < IndexValue(asset[p].buildArgs[1][1])

\* The places of `args` that hold `flag`.
FlagPlaces(args, flag) == {k \in 1..Len(args) : args[k] = flag}

\* C12: a build command holds '--target <stage>' exactly when asset.target is
\* present and '--file <path>' exactly when asset.file is present, both after
\* the '--tag <ref>' pair and the context path, '--target' before '--file'.
C12_OptionalFlagsAfterContext ==
    \A p \in procs :
        \A c \in ShellCalls(p, S_build) :
            LET args   == calls[p][c].args
                ctx    == 2 * Len(asset[p].buildArgs) + 5
                target == FlagPlaces(args, S_target)
                file   == FlagPlaces(args, S_file)
            IN /\ args[ctx - 2] = S_tag
               /\ args[ctx] = contextPath[p]
               /\ IF Present(asset[p].target)
                  THEN /\ target = {ctx + 1}
                       /\ args[ctx + 2] = asset[p].target
                  ELSE target = {}
               /\ IF Present(asset[p].file)
                  THEN /\ Cardinality(file) = 1
                       /\ \A k \in file :
                             /\ k > ctx
                             /\ k < Len(args)
                             /\ args[k + 1] = asset[p].file
                             /\ \A t \in target : t < k
                  ELSE file = {}
               /\ Len(args) = ctx + 2 * Cardinality(target) + 2 * Cardinality(file)

\* A build command with both flags.
C12_Witness ==
    \E p \in procs :
        /\ ShellCalls(p, S_build) # {}
        /\ Present(asset[p].target)
        /\ Present(asset[p].file)

\* The argument that follows '--tag <ref>' in a build command.
ContextArgument(args) ==
    LET at == FlagPlaces(args, S_tag)
    IN IF at = {} THEN Undefined ELSE args[(CHOOSE i \in at : \A j \in at : i <= j) + 2]

\* C13: the context path of every build command is asset.path itself when
\* asset.path is absolute, whatever assemblyDir is, and path.join(assemblyDir,
\* asset.path) when it is relative: '<assemblyDir>/<path>' for an absolute
\* assemblyDir, '<path>' for the assemblyDir '.'.
C13_ContextPathResolved ==
    \A p \in procs :
        \A c \in ShellCalls(p, S_build) :
            LET ctx == ContextArgument(calls[p][c].args)
            IN IF asset[p].path[1] = "/"
               THEN ctx = asset[p].path
               ELSE /\ ctx = PathJoin(assemblyDir[p], asset[p].path)
                    /\ assemblyDir[p][1] = "/"
                       => ctx = assemblyDir[p] \o <<"/">> \o asset[p].path
                    /\ assemblyDir[p] = <<".">> => ctx = asset[p].path

\* A build of a relative path under an absolute assembly directory.
C13_Witness ==
    \E p \in procs :
        /\ ShellCalls(p, S_build) # {}
        /\ asset[p].path = <<"r">>
        /\ assemblyDir[p] = <<"/", "d">>

\* A build of an absolute path under each assembly directory.
C13_WitnessAbsolute ==
    \E p \in procs :
        /\ ShellCalls(p, S_build) # {}
        /\ asset[p].path[1] = "/"
        /\ assemblyDir[p] = <<".">>

\* The calls of p among `places` that were fulfilled.
FulfilledCalls(p, places) ==
    {i \in places : calls[p][i].reply.status = "fulfilled"}

\* C14: a publish of an asset without imageNameParameter whose image did not
\* exist never runs the inspect command, and once its build, login and push
\* have succeeded it has returned no parameter.
C14_DirectModeReturnsEmpty ==
    \A p \in procs :
        (Absent(asset[p].imageNameParameter) /\ ~reuse[p])
        => /\ ShellCalls(p, S_image) = {}
           /\ (/\ FulfilledCalls(p, ShellCalls(p, S_build)) # {}
               /\ FulfilledCalls(p, ShellCalls(p, S_login)) # {}
               /\ FulfilledCalls(p, ShellCalls(p, S_push)) # {})
              => /\ pc[p] = "returned"
                 /\ outcome[p] = Returned(<<>>)

\* The image did not exist and the push succeeded.
C14_Witness ==
    \E p \in procs :
        /\ Absent(asset[p].imageNameParameter)
        /\ ~reuse[p]
        /\ \E i \in ToolkitCalls(p, "checkEcrImage") : calls[p][i].reply = Fulfilled(S_false)
        /\ FulfilledCalls(p, ShellCalls(p, S_push)) # {}
        /\ pc[p] = "returned"

\* What a recorded call is: the toolkitInfo operation, or the docker verb.
CallKind(c) ==
    IF c.op # "shell" THEN c.op
    ELSE IF c.args[2] = S_build THEN "build"
    ELSE IF c.args[2] = S_login THEN "login"
    ELSE IF c.args[2] = S_push THEN "push"
    ELSE IF c.args[2] = S_image THEN "inspect"
    ELSE "other"

\* The order of the collaborator calls of a publish of the asset of call p.
PublishOrder(p) ==
    <<"prepareEcrRepository">>
    \o (IF Present(asset[p].repositoryName) /\ Present(asset[p].imageTag)
        THEN <<"checkEcrImage">> ELSE <<>>)
    \o <<"build", "getEcrCredentials", "login", "push">>
    \o (IF Present(asset[p].imageNameParameter) THEN <<"inspect">> ELSE <<>>)

\* C15: the collaborator calls of a publish are an initial part of
\* prepareEcrRepository, checkEcrImage (only with repositoryName and imageTag),
\* build, getEcrCredentials, login, push, inspect (only with
\* imageNameParameter), and every call but the last made was fulfilled
\* (checkEcrImage with false).
C15_CallsInOrder ==
    \A p \in procs :
        /\ Len(calls[p]) <= Len(PublishOrder(p))
        /\ \A i \in 1..Len(calls[p]) :
              /\ CallKind(calls[p][i]) = PublishOrder(p)[i]
              /\ i < Len(calls[p])
                 => /\ calls[p][i].reply.status = "fulfilled"
                    /\ calls[p][i].reply.value # S_true
        /\ \A i \in ShellCalls(p, S_push) :
              \E j \in FulfilledCalls(p, ShellCalls(p, S_login)) : j < i
        /\ \A i \in ShellCalls(p, S_login) :
              \E j \in FulfilledCalls(p, ShellCalls(p, S_build)) : j < i

\* A legacy publish with repositoryName and imageTag that made all seven calls.
C15_Witness ==
    \E p \in procs :
        /\ Len(calls[p]) = 7
        /\ ~reuse[p]

\* The calls of p of one kind.
CallsOfKind(p, kind) == {i \in 1..Len(calls[p]) : CallKind(calls[p][i]) = kind}

CallKinds ==
    {"prepareEcrRepository", "checkEcrImage", "build", "getEcrCredentials",
     "login", "push", "inspect"}

\* Call p has failed: a collaborator call was rejected or the call has thrown.
Failed(p) == RejectedCalls(p) # {} \/ pc[p] = "thrown"

\* C16: within one publish every collaborator operation is called at most
\* once, a rejected call is the last call made, the image of a successful push
\* is in the registry, and once the publish has failed it makes no further
\* call and no image leaves the registry.
C16_NoRetryNoCompensation ==
    /\ [](\A p \in procs :
            /\ \A kind \in CallKinds : Cardinality(CallsOfKind(p, kind)) <= 1
            /\ \A i \in RejectedCalls(p) : i = Len(calls[p]) /\ pc[p] = "thrown"
            /\ \A i \in FulfilledCalls(p, ShellCalls(p, S_push)) :
                  calls[p][i].args[3] \in images)
    /\ [][\A p \in procs :
            Failed(p) => (calls'[p] = calls[p] /\ images \subseteq images')]_vars

\* The digest of a pushed image was not found: the publish failed after the push.
C16_Witness ==
    \E p \in procs :
        /\ FulfilledCalls(p, ShellCalls(p, S_push)) # {}
        /\ outcome[p] = Thrown(DigestError)
        /\ ExpectedReference(p) \in images

\* The state of the publish state machine that call p is in.
PublishState(p) ==
    CASE pc[p] = "start" -> "Start"
      [] pc[p] \in {"validated", "prepareEcrRepository"} -> "Validated"
      [] pc[p] \in {"checkEcrImage", "build"} -> "RepositoryResolved"
      [] pc[p] \in {"getEcrCredentials", "login"} -> "Built"
      [] pc[p] = "push" -> "Authenticated"
      [] pc[p] = "inspect" -> "Pushed"
      [] pc[p] = "thrown" -> "Failed"
      [] pc[p] = "returned" ->
            IF calls[p] = <<>> THEN "ReuseShortCircuit"
            ELSE IF CallsOfKind(p, "push") # {} THEN "ResultDerived"
            ELSE "SkippedExisting"

TerminalStates == {"ReuseShortCircuit", "SkippedExisting", "ResultDerived", "Failed"}

\* The transitions of the state machine; a publish without imageNameParameter
\* passes Pushed within the step that ends the push.
PublishTransitions ==
    {<<"Start", "Validated">>,
     <<"Validated", "ReuseShortCircuit">>,
     <<"Validated", "RepositoryResolved">>,
     <<"RepositoryResolved", "SkippedExisting">>,
     <<"RepositoryResolved", "Built">>,
     <<"Built", "Authenticated">>,
     <<"Authenticated", "Pushed">>,
     <<"Pushed", "ResultDerived">>}
    \cup {<<from, "Failed">> :
            from \in {"Start", "Validated", "RepositoryResolved", "Built",
                      "Authenticated", "Pushed"}}

PassesPushed == {<<"Authenticated", "ResultDerived">>}

\* C17: every step of a publish keeps its state or follows a transition of
\* Start -> Validated -> (ReuseShortCircuit | RepositoryResolved) ->
\* (SkippedExisting | Built -> Authenticated -> Pushed -> ResultDerived) or
\* one into the failure state; a terminal state is never left; and when every
\* await settles, every publish reaches a terminal state.
C17_StateMachineTerminates ==
    /\ [][\A p \in procs :
            /\ \/ PublishState(p)' = PublishState(p)
               \/ <<PublishState(p), PublishState(p)'>> \in PublishTransitions
               \/ /\ <<PublishState(p), PublishState(p)'>> \in PassesPushed
                  /\ ~Present(asset[p].imageNameParameter)
            /\ PublishState(p) \in TerminalStates
               => (pc'[p] = pc[p] /\ calls'[p] = calls[p] /\ outcome'[p] = outcome[p])
            /\ reuse[p] => PublishState(p)' \in {"Start", "Validated", "ReuseShortCircuit", "Failed"}]_vars
    /\ <>(\A p \in procs : PublishState(p) \in TerminalStates)

\* A publish that went through every state up to ResultDerived.
C17_Witness ==
    \E p \in procs :
        /\ PublishState(p) = "ResultDerived"
        /\ CallsOfKind(p, "inspect") # {}
        /\ CallsOfKind(p, "checkEcrImage") # {}

\* The calls that have run, with or without success, the push command.
Pushers == {p \in procs : CallsOfKind(p, "push") # {}}

\* C18 (as claimed): of the concurrent publishes of an asset with
\* repositoryName and imageTag at most one builds and pushes the tag, and a
\* push is run only while the tag is not in the registry.
C18_AtMostOnePublishPushes ==
    /\ [](Cardinality(Pushers) <= 1)
    /\ [][\A p \in procs :
            (pc[p] = "push" /\ pc'[p] # "push") => ExpectedReference(p) \notin images]_vars

\* C18 (amended): a publish goes on to build and push only when its own
\* checkEcrImage, made before its build, found the tag missing in the registry
\* at that moment, and a publish that checks once the tag is in the registry
\* builds and pushes nothing; the check and the push are not one step, so
\* several concurrent publishes may each build and push the tag.
C18_PushOnlyAfterOwnCheck ==
    /\ [](\A p \in procs :
            \A i \in CallsOfKind(p, "build") \cup CallsOfKind(p, "push") :
                \E j \in CallsOfKind(p, "checkEcrImage") :
                    j < i /\ calls[p][j].reply = Fulfilled(S_false))
    /\ [][\A p \in procs :
            (pc[p] = "checkEcrImage" /\ pc'[p] # "checkEcrImage")
            => IF ExpectedReference(p) \in images
               THEN pc'[p] \in {"returned", "thrown"}
               ELSE pc'[p] \in {"build", "thrown"}]_vars

\* Two publishes have pushed the tag, and another one has skipped it.
C18_Witness ==
    /\ Cardinality(Pushers) >= 2
    /\ \A p \in Pushers : FulfilledCalls(p, ShellCalls(p, S_push)) # {}

\* '<repositoryUri>:latest', the reference of the default tag, of call p.
LatestReference(p) == ecr[p].repositoryUri \o <<":">> \o S_latest

\* The build and push commands of call p that name the reference ref.
CommandsNaming(p, ref) ==
    {i \in ShellCalls(p, S_build) : TagArgument(calls[p][i].args) = ref}
    \cup {i \in ShellCalls(p, S_push) : calls[p][i].args[3] = ref}

\* C19: a build or push command names '<repositoryUri>:latest' for want of an
\* imageTag only for an asset with imageNameParameter, and an asset without
\* imageNameParameter is built and pushed only with its own imageTag.
C19_LatestOnlyInLegacyMode ==
    \A p \in procs :
        /\ (Absent(asset[p].imageTag) /\ CommandsNaming(p, LatestReference(p)) # {})
           => Present(asset[p].imageNameParameter)
        /\ (~Present(asset[p].imageNameParameter)
            /\ (ShellCalls(p, S_build) \cup ShellCalls(p, S_push)) # {})
           => /\ Present(asset[p].imageTag)
              /\ CommandsNaming(p, LatestReference(p)) = {}

\* An asset with imageNameParameter and no imageTag is built and pushed as
\* 'latest'.
C19_Witness ==
    \E p \in procs :
        /\ Absent(asset[p].imageTag)
        /\ Present(asset[p].imageNameParameter)
        /\ \E i \in ShellCalls(p, S_build) :
              TagArgument(calls[p][i].args) = LatestReference(p)
        /\ \E i \in ShellCalls(p, S_push) : calls[p][i].args[3] = LatestReference(p)

====
